---------------------------- MODULE Spec2Model ----------------------------
(***************************************************************************)
(* The recommendation pipeline of River1: the language-model analyzers     *)
(* and synthesizer (services/llm_analysis_service.py), the recommendation  *)
(* store with its change history and the portfolio refresh driver          *)
(* (services/recommendation_service.py), over the tables of models.py.     *)
(*                                                                         *)
(* Numbers that are floats in the program (scores, confidences) are kept   *)
(* in hundredths: 0.5 is 50, 0.3 is 30.  A JSON value of the model's reply *)
(* is a record [t, v]: t is its JSON type and v its number (0 otherwise).  *)
(***************************************************************************)
EXTENDS Integers, Sequences, FiniteSets, Bags, TLC

VARIABLES
    llm_available,      \* LLMAnalysisService.llm_available
    gemini_call_count,  \* LLMAnalysisService.gemini_call_count
    call,               \* the last analyzer / synthesizer invocation and what it returned
    stocks,             \* the rows of table stocks, as a bag
    portfolio,          \* the rows of table portfolio, as a bag
    recs,               \* committed Recommendation rows, per symbol, in creation order
    hist,               \* committed RecommendationHistory rows, per symbol, in creation order
    sessRecs,           \* Recommendation rows of the open session transaction, per symbol
    sessHist,           \* RecommendationHistory rows of the open session transaction
    sessOk,             \* FALSE once a flush of the open transaction has failed
    refresh,            \* refresh_all_recommendations: its position and locals
    ret,                \* what the last request handler returned to its caller
    threads,            \* one analyze_stock call in progress: its pool tasks and locals
    now,                \* datetime.utcnow(), in minutes
    reqs                \* the /api/analyze requests in progress, each on its own session

llmVars   == <<llm_available, gemini_call_count, call, threads>>
storeVars == <<stocks, portfolio, recs, hist, sessRecs, sessHist, sessOk, refresh, ret, now,
               reqs>>
vars      == <<llm_available, gemini_call_count, call, threads, stocks, portfolio,
               recs, hist, sessRecs, sessHist, sessOk, refresh, ret, now, reqs>>

----------------------------------------------------------------------------
(* Bounds of the model.                                                    *)

\* gemini_call_count is unbounded in the program; the model stops issuing calls here.
MaxCalls == 8

\* The Recommendation tables grow without bound; the model stops recording here.
MaxRecs == 3

\* A holding's share count grows without bound; the model stops adding here.
MaxShares == 30

\* Time has no end; the model's clock stops here (minutes).
MaxTime == 33

\* A 3-month history has some 63 sessions; the model's histories stop here.
MaxSessions == 22

----------------------------------------------------------------------------
(* JSON values and the replies of the model provider.                      *)

Absent == [t |-> "absent", v |-> 0]   \* the key is not in the reply
Null   == [t |-> "null", v |-> 0]     \* JSON null
Str    == [t |-> "str", v |-> 0]      \* a JSON string where a number was asked for
Num(n) == [t |-> "num", v |-> n]

\* The score a reply may carry: in range, out of range, missing, not a number.
ScoreValues == {Absent, Null, Str, Num(-100), Num(0), Num(70), Num(250)}
\* The confidence a reply may carry.
ConfValues == {Absent, Null, Str, Num(80), Num(150)}
\* The action a reply may carry ("ABSENT": no such key, "NULL": JSON null).
RecValues == {"ABSENT", "NULL", "BUY", "HOLD", "SELL", "STRONG_BUY"}

\* What one generate_content call can come to:
\*   unreachable  generate_content (or response.text) raises
\*   unparseable  json.loads raises JSONDecodeError
\*   nondict      the text is JSON but not an object (a list, a number, ...)
\*   json         a JSON object; err: it has an "error" key
ReplyKinds == {"unreachable", "unparseable", "nondict", "json"}

NoJson == [err |-> FALSE, score |-> Absent, rec |-> "ABSENT", conf |-> Absent]

FailedReplies ==
    {[kind |-> k] @@ NoJson : k \in {"unreachable", "unparseable", "nondict"}}

AnalyzerReplies ==
    FailedReplies \cup
    {[kind |-> "json", err |-> e, score |-> s, rec |-> "ABSENT", conf |-> Absent] :
        e \in BOOLEAN, s \in ScoreValues}

SynthReplies ==
    FailedReplies \cup
    {[kind |-> "json", err |-> e, score |-> Absent, rec |-> r, conf |-> c] :
        e \in BOOLEAN, r \in RecValues, c \in ConfValues}

\* The data slice handed to an analyzer: "ok" (non-empty), "empty" ([] / {} / None),
\* "error" (a fundamentals dict carrying the 'error' key).
DataKinds == {"ok", "empty", "error"}

----------------------------------------------------------------------------
(* _call_gemini_optimized: the result dict and the number of calls counted. *)

\* result: "error" when the returned dict has the key "error", "object" for any
\* other JSON object, "other" for a parsed value that is no dict.
CallGemini(avail, reply) ==
    IF ~avail
    THEN [result |-> "error", reply |-> reply, calls |-> 0]
    ELSE IF reply.kind \in {"unreachable", "unparseable"}
    THEN [result |-> "error", reply |-> reply, calls |-> 1]
    ELSE IF reply.kind = "nondict"
    THEN [result |-> "other", reply |-> reply, calls |-> 1]
    ELSE [result |-> IF reply.err THEN "error" ELSE "object", reply |-> reply, calls |-> 1]

\* Mutant of AnalyzerTail: the except clause is left out, so the AttributeError or
\* TypeError of a reply that is no JSON object reaches the caller.
AnalyzerTailUncaught(avail, reply, errText, doneText) ==
    LET r == CallGemini(avail, reply)
    IN  IF r.result = "object"
        THEN [score |-> IF reply.score = Absent THEN Num(0) ELSE reply.score,
              reasoning |-> doneText, raised |-> FALSE, calls |-> r.calls]
        ELSE [score |-> Num(0), reasoning |-> errText, raised |-> r.result = "other",
              calls |-> r.calls]

\* The tail the three analyzers share: the call, the "error" test, result.get(key, 0).
\* A value that is no dict raises inside the try and is caught: score 0.
AnalyzerTail(avail, reply, errText, doneText) ==
    LET r == CallGemini(avail, reply)
    IN  IF r.result = "object"
        THEN [score |-> IF reply.score = Absent THEN Num(0) ELSE reply.score,
              reasoning |-> doneText, raised |-> FALSE, calls |-> r.calls]
        ELSE [score |-> Num(0), reasoning |-> errText, raised |-> FALSE, calls |-> r.calls]

Short(text) == [score |-> Num(0), reasoning |-> text, raised |-> FALSE, calls |-> 0]

\* Mutant of _analyze_news_sentiment: the test for missing news is left out.
NewsSentimentWithoutDataTest(avail, data, reply) ==
    IF ~avail THEN Short("Gemini API key not configured")
    ELSE AnalyzerTail(avail, reply, "Error in sentiment analysis", "Analysis completed")

_analyze_news_sentiment(avail, data, reply) ==
    IF data = "empty" THEN Short("No recent news available")
    ELSE IF ~avail THEN Short("Gemini API key not configured")
    ELSE AnalyzerTail(avail, reply, "Error in sentiment analysis", "Analysis completed")

_analyze_technical_indicators(avail, data, reply) ==
    IF data = "empty" THEN Short("No technical data available")
    ELSE IF ~avail THEN Short("Gemini API key not configured")
    ELSE AnalyzerTail(avail, reply, "Error in technical analysis",
                      "Technical analysis completed")

_analyze_fundamentals(avail, data, reply) ==
    IF data \in {"empty", "error"} THEN Short("No fundamental data available")
    ELSE IF ~avail THEN Short("Gemini API key not configured")
    ELSE AnalyzerTail(avail, reply, "Error in fundamental analysis",
                      "Fundamental analysis completed")

\* Mutant of _generate_final_recommendation: a failed call falls back to the
\* confidence of the unconfigured case.
FinalRecommendationOneFallback(avail, wellFormed, reply) ==
    IF ~avail \/ ~wellFormed \/ CallGemini(avail, reply).result # "object"
    THEN [recommendation |-> "HOLD", confidence |-> Num(50),
          reasoning |-> "Gemini API key not configured", raised |-> FALSE,
          calls |-> IF avail /\ wellFormed THEN 1 ELSE 0]
    ELSE [recommendation |-> IF reply.rec = "ABSENT" THEN "HOLD" ELSE reply.rec,
          confidence |-> IF reply.conf = Absent THEN Num(50) ELSE reply.conf,
          reasoning |-> "Comprehensive analysis completed",
          raised |-> FALSE, calls |-> 1]

\* _generate_final_recommendation.  wellFormed: the three analyzer results carry the
\* 'score' and 'reasoning' keys the prompt reads; without them the prompt raises
\* KeyError inside the try, before any call.
_generate_final_recommendation(avail, wellFormed, reply) ==
    IF ~avail
    THEN [recommendation |-> "HOLD", confidence |-> Num(50),
          reasoning |-> "Gemini API key not configured", raised |-> FALSE, calls |-> 0]
    ELSE IF ~wellFormed
    THEN [recommendation |-> "HOLD", confidence |-> Num(30),
          reasoning |-> "Error in final analysis", raised |-> FALSE, calls |-> 0]
    ELSE LET r == CallGemini(avail, reply)
         IN  IF r.result = "object"
             THEN [recommendation |-> IF reply.rec = "ABSENT" THEN "HOLD" ELSE reply.rec,
                   confidence |-> IF reply.conf = Absent THEN Num(50) ELSE reply.conf,
                   reasoning |-> "Comprehensive analysis completed",
                   raised |-> FALSE, calls |-> r.calls]
             ELSE [recommendation |-> "HOLD", confidence |-> Num(30),
                   reasoning |-> "Error in final analysis",
                   raised |-> FALSE, calls |-> r.calls]


----------------------------------------------------------------------------
(* analyze_stock: the data fetch, the three analyzers, the synthesizer.     *)

\* env: what the providers answer during one analyze_stock call: the three data
\* slices and the model's reply to each of the four prompts.
\* An analyzer future that raised is replaced by the neutral result (lines 125-127).
Collected(r, text) ==
    IF r.raised THEN [score |-> Num(0), reasoning |-> text, raised |-> FALSE,
                      calls |-> r.calls]
    ELSE r

\* Line 154 formats confidence_score with ':.2f', which raises for a value that is
\* no number; the except of line 160 re-raises.
analyze_stock(avail, env) ==
    LET n == Collected(_analyze_news_sentiment(avail, env.news, env.rN), "Error")
        t == Collected(_analyze_technical_indicators(avail, env.tech, env.rT), "Error")
        f == Collected(_analyze_fundamentals(avail, env.fund, env.rF), "Error")
        s == _generate_final_recommendation(avail, TRUE, env.rS)
    IN  [raised            |-> s.confidence.t # "num",
         recommendation    |-> s.recommendation,
         confidence_score  |-> s.confidence,
         news_sentiment    |-> n.score,
         technical_score   |-> t.score,
         fundamental_score |-> f.score,
         calls             |-> n.calls + t.calls + f.calls + s.calls,
         racing            |-> n.calls + t.calls + f.calls]

\* What one analyze_stock call can add to gemini_call_count.  The increment of line
\* 44 is a read and a write, and the analyzers run it on three threads at once: of
\* their increments at least one takes effect and the others may be lost; the
\* synthesizer's comes after the pool is done.
Increments(a) ==
    {a.calls - lost : lost \in 0..(IF a.racing = 0 THEN 0 ELSE a.racing - 1)}

----------------------------------------------------------------------------
(* The world of the store specification.                                    *)

Users == {1, 2}
Symbols == {"AAPL", "ZZZZ"}
\* The symbols of the five-holding portfolio.
FiveSymbols == {"AAPL", "GOOGL", "MSFT", "TSLA", "ZZZZ"}
AllSymbols == Symbols \cup FiveSymbols

\* The market-data provider knows every symbol but ZZZZ: ticker.info of ZZZZ has
\* no 'longName'.
Resolvable(s) == s # "ZZZZ"

\* What the data fetches of analyze_stock (lines 99-101) return for a symbol.  None of
\* them raises: each catches its own exceptions and returns an error dict, [] or {}.
DataFor(s) ==
    IF Resolvable(s) THEN [news |-> "ok", tech |-> "ok", fund |-> "ok"]
    ELSE [news |-> "empty", tech |-> "empty", fund |-> "error"]

GoodScore == [kind |-> "json", err |-> FALSE, score |-> Num(70), rec |-> "ABSENT",
              conf |-> Absent]
SynthJson(r, c) == [kind |-> "json", err |-> FALSE, score |-> Absent, rec |-> r, conf |-> c]
Unreachable == [kind |-> "unreachable"] @@ NoJson

\* The synthesizer replies the store specification draws from: a BUY, a SELL, an
\* object whose recommendation is null, one whose confidence is a string, no answer.
StoreReplies ==
    {SynthJson("BUY", Num(80)), SynthJson("SELL", Num(80)), SynthJson("NULL", Num(80)),
     SynthJson("BUY", Str), Unreachable}

EnvsFor(s, replies) ==
    {DataFor(s) @@ [rN |-> GoodScore, rT |-> GoodScore, rF |-> GoodScore, rS |-> r] :
        r \in replies}

----------------------------------------------------------------------------
(* The tables and the session.                                              *)

Row(a) == [recommendation    |-> a.recommendation,
           confidence_score  |-> a.confidence_score,
           news_sentiment    |-> a.news_sentiment,
           technical_score   |-> a.technical_score,
           fundamental_score |-> a.fundamental_score]

\* recommendations.recommendation is nullable=False: the INSERT of a row whose
\* recommendation is None fails at flush.
Storable(row) == row.recommendation # "NULL"

Empty == [s \in AllSymbols |-> <<>>]

\* The rows a query of the session sees: the committed ones, then those of its own
\* open transaction.  created_at is set at INSERT, so this is creation order.
Visible(s) == recs[s] \o sessRecs[s]
VisibleHist(s) == hist[s] \o sessHist[s]

RECURSIVE SumLen(_, _)
SumLen(f, S) ==
    IF S = {} THEN 0
    ELSE LET s == CHOOSE x \in S : TRUE IN Len(f[s]) + SumLen(f, S \ {s})

TotalRecs == SumLen(recs, AllSymbols) + SumLen(sessRecs, AllSymbols)

PendingStorable == \A s \in AllSymbols : \A i \in 1..Len(sessRecs[s]) : Storable(sessRecs[s][i])

\* Recommendation.query.filter_by(stock_id).order_by(desc(created_at)).first()
Latest(s) == IF Visible(s) = <<>> THEN "NONE" ELSE Visible(s)[Len(Visible(s))].recommendation

\* Mutants of Changed: the test for a prior row is left out; the comparison of the
\* two actions is left out.
ChangedWithoutPrior(previous, new) == previous # new
ChangedWheneverPrior(previous, new) == previous # "NONE"

\* Lines 213-214 and 330-331: whether a RecommendationHistory row is written.
Changed(previous, new) == previous # "NONE" /\ previous # new

\* Mutant of Change: the two actions are stored the wrong way round.
ChangeSwapped(previous, new) ==
    [previous_recommendation |-> new, new_recommendation |-> previous]

\* Lines 217-221 and 333-337: the RecommendationHistory row.
Change(previous, new) == [previous_recommendation |-> previous, new_recommendation |-> new]

WithRec(rows, s, row) == [rows EXCEPT ![s] = Append(@, row)]

\* Mutant of WithChange: a change row is written with every Recommendation.
WithChangeAlways(rows, s, previous, new) ==
    [rows EXCEPT ![s] = Append(@, Change(previous, new))]

\* The change rows after one more Recommendation: lines 213-223 and 330-339.
WithChange(rows, s, previous, new) ==
    IF Changed(previous, new)
    THEN [rows EXCEPT ![s] = Append(@, Change(previous, new))]
    ELSE rows

----------------------------------------------------------------------------
(* Portfolio operations: how Stock and Portfolio rows come to exist.        *)

Idle == [pc |-> "idle", tasks |-> <<>>, updated_count |-> 0, changed_count |-> 0,
         errors |-> <<>>]

\* Table stocks.  last_updated is in minutes and current_price a whole number;
\* NoTime and NoPrice stand for NULL.
NoTime == -1
NoPrice == 0

StockRow(s, price) == [symbol |-> s, current_price |-> price, last_updated |-> now]

\* Stock.query.filter_by(symbol=symbol): the rows with that symbol.
StocksOf(s) == {r \in BagToSet(stocks) : r.symbol = s}

\* What ticker.info holds for a symbol when a Stock row is created from it.
Info(s) == [longName |-> Resolvable(s), currentPrice |-> 100]

\* PortfolioService._get_or_create_stock: an existing row, or a new one when the
\* provider's info carries 'longName'; None otherwise.
GetOrCreateStock(s) == StocksOf(s) # {} \/ Info(s).longName

\* The table after "query, and insert if there is none" (lines 114-138, and the same
\* in upstox_service.py 282-298 and setu_aa_service.py 404-413).
WithStock(s, price) ==
    IF StocksOf(s) # {} THEN stocks ELSE stocks (+) SetToBag({StockRow(s, price)})

\* Table portfolio.  stock_id is the symbol of the Stock row it refers to.  shares are
\* whole numbers here and average_cost is an exact fraction n/d in lowest terms, so
\* that the division of line 86 is a division and not a truncation.
RECURSIVE GCD(_, _)
GCD(a, b) == IF b = 0 THEN a ELSE GCD(b, a % b)

Abs(n) == IF n < 0 THEN -n ELSE n

\* The fraction n/d (d not 0) in lowest terms, its denominator positive.
Frac(n, d) ==
    LET g == GCD(Abs(n), Abs(d))
        sign == IF d < 0 THEN -1 ELSE 1
    IN  [n |-> (sign * n) \div g, d |-> (sign * d) \div g]

Lot(shares, average_cost) == [shares |-> shares, average_cost |-> average_cost]

PortfolioRow(u, s, lot) ==
    [user_id |-> u, stock_id |-> s, shares |-> lot.shares,
     average_cost |-> lot.average_cost, is_active |-> TRUE]

\* Mutant of Existing: the query for a holding to merge into is left out.
ExistingNever(u, s) == {}

\* Portfolio.query.filter_by(stock_id=stock.id, user_id=user_id, is_active=True)
Existing(u, s) ==
    {r \in BagToSet(portfolio) : r.stock_id = s /\ r.user_id = u /\ r.is_active}

\* .first() of a query: one of its rows.
First(rows) == CHOOSE r \in rows : TRUE

\* The table with one of its rows rewritten.
Updated(row, lot) ==
    (portfolio (-) SetToBag({row}))
        (+) SetToBag({[row EXCEPT !.shares = lot.shares, !.average_cost = lot.average_cost]})

\* Portfolio.query.filter_by(is_active=True).join(Stock): the holdings a refresh
\* loads, each by owner and symbol, and what each holds.
holdings ==
    {<<r.user_id, r.stock_id>> : r \in {x \in BagToSet(portfolio) : x.is_active}}

lots ==
    [h \in holdings |->
        LET r == First({x \in BagToSet(portfolio) :
                           x.is_active /\ <<x.user_id, x.stock_id>> = h})
        IN  Lot(r.shares, r.average_cost)]

\* Mutant of Merged: the new average cost is the mean of the two prices, whatever the
\* share counts.
MergedUnweighted(lot, shares, average_cost) ==
    Lot(lot.shares + shares,
        Frac(lot.average_cost.n + average_cost * lot.average_cost.d,
             2 * lot.average_cost.d))

\* Lines 84-89: total_shares, total_cost, new_average_cost of the merged holding.
Merged(lot, shares, average_cost) ==
    LET total_shares == lot.shares + shares
        \* total_cost as a fraction over lot.average_cost.d
        total_cost_n == lot.shares * lot.average_cost.n
                            + shares * average_cost * lot.average_cost.d
    IN  Lot(total_shares, Frac(total_cost_n, lot.average_cost.d * total_shares))

\* The share counts the model follows.
InBounds(shares) == shares <= MaxShares /\ shares >= -MaxShares

\* Mutant of AddFailed: the merged share count was assigned before the failure and
\* is not rolled back.
AddFailedHalfWritten(existing, shares) ==
    IF existing = {} THEN portfolio
    ELSE Updated(First(existing),
                 Lot(First(existing).shares + shares, First(existing).average_cost))

\* Lines 105-108: the except clause rolls the session back: the table is the
\* committed one.
AddFailed(existing, shares) == portfolio

\* What add_stock_to_portfolio returns when it fails, and which error it logged.
AddError(logged) == [op |-> "add", ok |-> FALSE, logged |-> logged]

\* PortfolioService.add_stock_to_portfolio.  dbok: whether the database accepts the
\* commit of line 102; the Stock row was committed before it, by
\* _get_or_create_stock.  A merged share count of zero makes line 86 divide by zero,
\* before anything is assigned.
AddStock(u, s, shares, average_cost, dbok) ==
    LET existing == Existing(u, s)
        zero == existing # {} /\ First(existing).shares + shares = 0
    IN  /\ refresh.pc = "idle"
        /\ IF ~GetOrCreateStock(s)
           THEN \* line 77
                /\ ret' = AddError("symbol")
                /\ UNCHANGED <<stocks, portfolio>>
           ELSE /\ stocks' = WithStock(s, Info(s).currentPrice)
                /\ InBounds((IF existing # {} THEN First(existing).shares ELSE 0) + shares)
                /\ IF zero \/ ~dbok
                   THEN /\ ret' = AddError(IF zero THEN "division" ELSE "commit")
                        /\ portfolio' = AddFailed(existing, shares)
                   ELSE /\ portfolio' =
                               IF existing # {}
                               THEN Updated(First(existing),
                                            Merged(First(existing), shares, average_cost))
                               ELSE portfolio (+) SetToBag({PortfolioRow(u, s,
                                                     Lot(shares, Frac(average_cost, 1)))})
                        /\ ret' = [op |-> "add", ok |-> TRUE]
        /\ UNCHANGED <<llmVars, now, reqs, recs, hist, sessRecs, sessHist, sessOk, refresh>>

\* The holding of (u, s) after "query, then update or insert" (upstox_service.py
\* 312-332, setu_aa_service.py 416-436): its shares and average_cost are overwritten.
Synced(u, s, lot) ==
    IF Existing(u, s) # {} THEN Updated(First(Existing(u, s)), lot)
    ELSE portfolio (+) SetToBag({PortfolioRow(u, s, lot)})

\* UpstoxService, for one position of a sync (its quantity is positive: line 237):
\* _get_or_create_stock_from_upstox creates the Stock row from the position data,
\* without asking the market-data provider, and _update_portfolio_entry creates the
\* holding or overwrites its shares and average_cost with the position's.
UpstoxSync(u, s, quantity, average_price, last_price) ==
    /\ refresh.pc = "idle"
    /\ stocks' = WithStock(s, last_price)
    /\ portfolio' = Synced(u, s, Lot(quantity, Frac(average_price, 1)))
    /\ ret' = [op |-> "sync", ok |-> TRUE]
    /\ UNCHANGED <<llmVars, now, reqs, recs, hist, sessRecs, sessHist, sessOk, refresh>>

\* SetuAAService, for one equity holding of sync_holdings_to_database:
\* _sync_to_main_portfolio creates the Stock row without a price and creates the
\* holding or overwrites it with the units and cost of the account aggregator, which
\* nothing checks to be positive; the commit of line 366 follows.
SetuSync(u, s, units, average_cost) ==
    /\ refresh.pc = "idle"
    /\ InBounds(units)
    /\ stocks' = WithStock(s, NoPrice)
    /\ portfolio' = Synced(u, s, Lot(units, Frac(average_cost, 1)))
    /\ ret' = [op |-> "setu", ok |-> TRUE]
    /\ UNCHANGED <<llmVars, now, reqs, recs, hist, sessRecs, sessHist, sessOk, refresh>>

----------------------------------------------------------------------------
(* LLMAnalysisService._get_technical_indicators: the price momentum.       *)

\* hist['Close'] is a sequence of closing prices, the oldest first, one per trading
\* session; iloc[-k] is its k-th element from the end, iloc[-1] the latest.
ILoc(closes, k) == closes[Len(closes) - k + 1]

\* Lines 395-396: the price the momentum is measured from.
PriceAgo(closes, k) ==
    IF Len(closes) >= k THEN ILoc(closes, k) ELSE ILoc(closes, 1)

\* Lines 398-399: the percentage change, as an exact fraction.
Momentum(current_price, price_ago) ==
    IF price_ago # 0 THEN Frac((current_price - price_ago) * 100, price_ago)
    ELSE Frac(0, 1)

\* round(x, 2) of lines 409-410, in hundredths: the nearest hundredth, a tie going to
\* the even one.
Round2(x) ==
    LET twice == (2 * 100 * x.n) \div x.d       \* floor of 2 * (x in hundredths)
        floor == twice \div 2
        tie   == (2 * 100 * x.n) % x.d = 0 /\ twice % 2 = 1
    IN  IF twice % 2 = 0 THEN floor
        ELSE IF tie THEN (IF floor % 2 = 0 THEN floor ELSE floor + 1)
        ELSE floor + 1

\* The momentum entries of the dict _get_technical_indicators returns; {} for an empty
\* history (line 373).
_get_technical_indicators(closes) ==
    IF closes = <<>> THEN [empty |-> TRUE]
    ELSE LET current_price == ILoc(closes, 1)
         IN  [empty |-> FALSE,
              current_price |-> current_price,
              momentum_1w_percent |-> Round2(Momentum(current_price, PriceAgo(closes, 5))),
              momentum_1m_percent |-> Round2(Momentum(current_price, PriceAgo(closes, 20)))]

----------------------------------------------------------------------------
(* PortfolioService._update_stock_price_if_needed                           *)

\* timedelta(minutes=15)
StaleAfter == 15

\* Mutant of IsStale: a row is refreshed from 15 minutes on.
IsStaleAtFifteen(row) ==
    row.last_updated = NoTime \/ now - row.last_updated >= StaleAfter

\* Line 150: there is no last_updated, or it is more than 15 minutes ago.
IsStale(row) ==
    row.last_updated = NoTime \/ now - row.last_updated > StaleAfter

\* What ticker.info can come to in line 152: a dict with 'currentPrice', a dict
\* without it, an exception.
Quotes ==
    {[kind |-> "price", currentPrice |-> 100], [kind |-> "price", currentPrice |-> 110],
     [kind |-> "nokey", currentPrice |-> NoPrice], [kind |-> "raises", currentPrice |-> NoPrice]}

\* What the call returned (ok) and, which its caller does not see, whether it asked
\* the provider and what the provider answered.
PriceResult(s, ok, fetched, info) ==
    [op |-> "price", symbol |-> s, ok |-> ok, fetched |-> fetched, info |-> info]

\* _update_stock_price_if_needed for the Stock row of s.  dbok: whether the database
\* accepts the commit of line 161; if it does not, line 168 returns False and the row
\* stays as it was committed.
UpdateStockPriceIfNeeded(s, info, dbok) ==
    LET row == First(StocksOf(s))
    IN  /\ refresh.pc = "idle"
        /\ StocksOf(s) # {}
        /\ IF ~IsStale(row)
           THEN \* line 164
                /\ ret' = PriceResult(s, TRUE, FALSE, "none")
                /\ UNCHANGED stocks
           ELSE IF info.kind = "price" /\ dbok
           THEN \* lines 155-162
                /\ stocks' = (stocks (-) SetToBag({row}))
                                 (+) SetToBag({[row EXCEPT !.current_price = info.currentPrice,
                                                           !.last_updated = now]})
                /\ ret' = PriceResult(s, TRUE, TRUE, info.kind)
           ELSE \* line 164 without 'currentPrice', line 168 after an exception
                /\ ret' = PriceResult(s, info.kind = "nokey", TRUE, info.kind)
                /\ UNCHANGED stocks
        /\ UNCHANGED <<llmVars, reqs, now, portfolio, recs, hist, sessRecs, sessHist, sessOk,
                       refresh>>

\* Time passes.
Tick(minutes, maxTime) ==
    /\ now + minutes <= maxTime
    /\ now' = now + minutes
    /\ UNCHANGED <<llmVars, reqs, stocks, portfolio, recs, hist, sessRecs, sessHist, sessOk,
                   refresh, ret>>

----------------------------------------------------------------------------
(* RecommendationService.create_recommendation_for_stock                    *)

None(s) == [op |-> "create", symbol |-> s, ok |-> FALSE, recommendation |-> "NONE"]

\* dbok: whether the database accepts the commit of line 341.
CreateRecommendation(s, env, dbok) ==
    /\ refresh.pc = "idle"
    /\ IF ~GetOrCreateStock(s)
       THEN \* line 303: return None
            /\ ret' = None(s)
            /\ UNCHANGED <<stocks, gemini_call_count, recs, hist>>
       ELSE LET a == analyze_stock(llm_available, env)
                previous == Latest(s)
            IN  /\ TotalRecs < MaxRecs
                /\ gemini_call_count + a.calls <= MaxCalls
                /\ stocks' = WithStock(s, Info(s).currentPrice)
                /\ \E inc \in Increments(a) : gemini_call_count' = gemini_call_count + inc
                /\ IF a.raised \/ ~Storable(Row(a)) \/ ~dbok
                   THEN \* lines 351-354: rollback, return None
                        /\ ret' = None(s)
                        /\ UNCHANGED <<recs, hist>>
                   ELSE /\ recs' = WithRec(recs, s, Row(a))
                        /\ hist' = WithChange(hist, s, previous, a.recommendation)
                        /\ ret' = [op |-> "create", symbol |-> s, ok |-> TRUE,
                                   recommendation |-> a.recommendation]
    /\ UNCHANGED <<llm_available, call, threads, now, reqs, portfolio, sessRecs, sessHist, sessOk,
                   refresh>>

----------------------------------------------------------------------------
(* create_recommendation_for_stock on two request threads at once.  Each    *)
(* request has a session of its own; a session sees the committed rows and  *)
(* its own pending ones, and a request has nothing pending before line 327. *)

\* The requests that can be in progress at once, and none of them in progress.
Requests == {1, 2}
NoReqs == [r \in Requests |-> [pc |-> "idle"]]

\* The latest committed Recommendation of s: what the query of lines 309-312 returns
\* to a session with nothing pending.
LatestCommitted(s) ==
    IF recs[s] = <<>> THEN "NONE" ELSE recs[s][Len(recs[s])].recommendation

\* The requests between their read of the latest Recommendation and their commit.
Reading == {r \in Requests : reqs[r].pc = "read"}

\* The model follows one more analysis.
Room ==
    /\ SumLen(recs, AllSymbols) + Cardinality(Reading) < MaxRecs
    /\ gemini_call_count + 4 <= MaxCalls

\* Lines 298-312 of request r: the Stock row, the analysis, the read of the latest
\* Recommendation.  Nothing is locked and nothing is written.
ReqRead(r, s, env) ==
    /\ reqs[r].pc = "idle"
    /\ refresh.pc = "idle"
    /\ Room
    /\ IF ~GetOrCreateStock(s)
       THEN \* line 303
            /\ ret' = None(s)
            /\ UNCHANGED <<stocks, gemini_call_count, reqs>>
       ELSE LET a == analyze_stock(llm_available, env)
            IN  /\ stocks' = WithStock(s, Info(s).currentPrice)
                /\ \E inc \in Increments(a) : gemini_call_count' = gemini_call_count + inc
                /\ IF a.raised
                   THEN \* lines 351-354
                        /\ ret' = None(s)
                        /\ UNCHANGED reqs
                   ELSE /\ reqs' = [reqs EXCEPT ![r] =
                                       [pc |-> "read", symbol |-> s, row |-> Row(a),
                                        previous |-> LatestCommitted(s)]]
                        /\ UNCHANGED ret
    /\ UNCHANGED <<llm_available, call, threads, now, portfolio, recs, hist, sessRecs,
                   sessHist, sessOk, refresh>>

\* Mutant of Previous: the latest Recommendation is read again when the rows are
\* written.
PreviousAtCommit(r) == LatestCommitted(reqs[r].symbol)

\* previous_recommendation of lines 330-336: what request r read at lines 309-312.
Previous(r) == reqs[r].previous

\* Lines 314-354 of request r: the Recommendation, the change row when the read
\* action differs from the new one, the commit.  dbok: whether the database accepts
\* the commit (it may be locked by the other request).
ReqWrite(r, dbok) ==
    LET s == reqs[r].symbol
        row == reqs[r].row
    IN  /\ reqs[r].pc = "read"
        /\ IF ~Storable(row) \/ ~dbok
           THEN /\ ret' = None(s)
                /\ UNCHANGED <<recs, hist>>
           ELSE /\ recs' = WithRec(recs, s, row)
                /\ hist' = WithChange(hist, s, Previous(r), row.recommendation)
                /\ ret' = [op |-> "create", symbol |-> s, ok |-> TRUE,
                           recommendation |-> row.recommendation]
        /\ reqs' = [reqs EXCEPT ![r] = [pc |-> "idle"]]
        /\ UNCHANGED <<llmVars, now, stocks, portfolio, sessRecs, sessHist, sessOk, refresh>>

----------------------------------------------------------------------------
(* RecommendationService.refresh_all_recommendations                        *)

Queued == [st |-> "queued", success |-> FALSE, analysis |-> "NONE"]

\* Mutant of Result: updated_count reports the holdings of the pass, as the log line
\* "Updated: n/m" does, and not the results that were recorded.
ResultCountsHoldings(raised, updated, changed, total, errors) ==
    [op |-> "refresh", raised |-> raised, updated_count |-> total,
     changed_count |-> changed, total_stocks |-> total, errors |-> errors]

\* Lines 128-135 and 248-255: the result dict (raised: line 260 raised instead).
Result(raised, updated, changed, total, errors) ==
    [op |-> "refresh", raised |-> raised, updated_count |-> updated,
     changed_count |-> changed, total_stocks |-> total, errors |-> errors]

\* Lines 127-135: no active holding.
RefreshEmpty ==
    /\ refresh.pc = "idle"
    /\ holdings = {}
    /\ ret' = Result(FALSE, 0, 0, 0, <<>>)
    /\ UNCHANGED <<llmVars, now, reqs, stocks, portfolio, recs, hist, sessRecs, sessHist, sessOk,
                   refresh>>

\* Lines 125-178: the active holdings of every user are loaded and one
\* analyze_single_stock is submitted for each.
RefreshStart(maxRecs, maxCalls) ==
    /\ refresh.pc = "idle"
    /\ threads.pc = "idle"
    /\ holdings # {}
    /\ TotalRecs + Cardinality(holdings) <= maxRecs
    /\ gemini_call_count + 4 * Cardinality(holdings) <= maxCalls
    /\ refresh' = [Idle EXCEPT !.pc = "running", !.tasks = [h \in holdings |-> Queued]]
    /\ UNCHANGED <<llmVars, now, reqs, stocks, portfolio, recs, hist, sessRecs, sessHist, sessOk,
                   ret>>

\* The smaller of two numbers.
Min(a, b) == IF a <= b THEN a ELSE b

\* Mutant of MaxWorkers: the pool has a thread for every holding.
MaxWorkersUncapped(n) == n

\* Line 170: max_workers = min(len(portfolio_stocks), 5).
PoolCap == 5
MaxWorkers(n) == Min(n, PoolCap)

\* The holdings whose analyze_single_stock is running on a pool thread.
Running == {h \in DOMAIN refresh.tasks : refresh.tasks[h].st \in {"running", "analyzing"}}

\* A pool thread takes the next submitted analysis, when one of the max_workers
\* threads is free.
PoolStart(h) ==
    /\ refresh.pc = "running"
    /\ refresh.tasks[h].st = "queued"
    /\ Cardinality(Running) < MaxWorkers(Cardinality(DOMAIN refresh.tasks))
    /\ refresh' = [refresh EXCEPT !.tasks[h].st = "running"]
    /\ UNCHANGED <<llmVars, now, reqs, stocks, portfolio, recs, hist, sessRecs, sessHist, sessOk,
                   ret>>

\* analyze_single_stock (lines 144-167) on a pool thread: the analysis, or the error
\* of an analysis that raised.  from: "running" for a task a pool thread has taken,
\* "queued" to take it and run it in one step.
AnalyzeSingleStock(h, env, from) ==
    /\ refresh.pc = "running"
    /\ refresh.tasks[h].st = from
    /\ LET a == analyze_stock(llm_available, env)
       IN  /\ \E inc \in Increments(a) : gemini_call_count' = gemini_call_count + inc
           /\ refresh' = [refresh EXCEPT !.tasks[h] =
                             [st |-> "done", success |-> ~a.raised,
                              analysis |-> IF a.raised THEN "NONE" ELSE Row(a)]]
    /\ UNCHANGED <<llm_available, call, threads, now, reqs, stocks, portfolio, recs, hist,
                   sessRecs, sessHist, sessOk, ret>>

Error(kind, s) == [kind |-> kind, symbol |-> s]

\* The body of the as_completed loop (lines 181-238) for one finished future.
\* The query of lines 192-195 flushes the session first: it raises when an earlier
\* flush of this transaction failed, or when a pending row cannot be inserted; a
\* failed flush rolls the transaction back and leaves the session unusable until
\* rollback() is called, which the handler of line 235 does not do.
ProcessResult(h) ==
    LET t == refresh.tasks[h]
        s == h[2]
    IN  /\ refresh.pc = "running"
        /\ t.st = "done"
        /\ IF ~t.success
           THEN \* line 233
                /\ refresh' = [refresh EXCEPT !.tasks[h].st = "processed",
                                  !.errors = Append(@, Error("analyzing", s))]
                /\ UNCHANGED <<sessRecs, sessHist, sessOk>>
           ELSE IF ~sessOk
           THEN /\ refresh' = [refresh EXCEPT !.tasks[h].st = "processed",
                                  !.errors = Append(@, Error("processing", s))]
                /\ UNCHANGED <<sessRecs, sessHist, sessOk>>
           ELSE IF ~PendingStorable
           THEN /\ refresh' = [refresh EXCEPT !.tasks[h].st = "processed",
                                  !.errors = Append(@, Error("processing", s))]
                /\ sessRecs' = Empty
                /\ sessHist' = Empty
                /\ sessOk' = FALSE
           ELSE LET previous == Latest(s)
                    new == t.analysis.recommendation
                IN  /\ sessRecs' = WithRec(sessRecs, s, t.analysis)
                    /\ sessHist' = WithChange(sessHist, s, previous, new)
                    /\ sessOk' = sessOk
                    /\ refresh' = [refresh EXCEPT !.tasks[h].st = "processed",
                                      !.updated_count = @ + 1,
                                      !.changed_count =
                                          IF Changed(previous, new) THEN @ + 1 ELSE @]
        /\ UNCHANGED <<llmVars, now, reqs, stocks, portfolio, recs, hist, ret>>

\* Mutant of AllProcessed: the loop is left at the first result it has processed.
AnyProcessed == \E h \in DOMAIN refresh.tasks : refresh.tasks[h].st = "processed"

\* Line 181: as_completed has yielded every future of future_to_stock.
AllProcessed == \A h \in DOMAIN refresh.tasks : refresh.tasks[h].st = "processed"

\* Lines 240-255: the one commit of the pass, and the result.
RefreshCommit ==
    /\ refresh.pc = "running"
    /\ AllProcessed
    /\ sessOk /\ PendingStorable
    /\ recs' = [s \in AllSymbols |-> recs[s] \o sessRecs[s]]
    /\ hist' = [s \in AllSymbols |-> hist[s] \o sessHist[s]]
    /\ sessRecs' = Empty
    /\ sessHist' = Empty
    /\ ret' = Result(FALSE, refresh.updated_count, refresh.changed_count,
                     Cardinality(DOMAIN refresh.tasks), refresh.errors)
    /\ refresh' = Idle
    /\ UNCHANGED <<llmVars, now, reqs, stocks, portfolio, sessOk>>

\* Mutant of RefreshFail: the rows already flushed stay written, the rest is lost.
RefreshFailKeepsFlushed ==
    /\ refresh.pc = "running"
    /\ AllProcessed
    /\ ~(sessOk /\ PendingStorable)
    /\ recs' = [s \in AllSymbols |-> recs[s] \o sessRecs[s]]
    /\ sessRecs' = Empty
    /\ sessHist' = Empty
    /\ sessOk' = TRUE
    /\ ret' = Result(TRUE, 0, 0, 0, <<>>)
    /\ refresh' = Idle
    /\ UNCHANGED <<llmVars, now, reqs, stocks, portfolio, hist>>

\* Lines 257-260 when the flush of the commit raises: the session is unusable after
\* a failed flush, or a pending row cannot be inserted.  rollback(), and the
\* exception goes to the caller.
RefreshFail ==
    /\ refresh.pc = "running"
    /\ AllProcessed
    /\ ~(sessOk /\ PendingStorable)
    /\ sessRecs' = Empty
    /\ sessHist' = Empty
    /\ sessOk' = TRUE
    /\ ret' = Result(TRUE, 0, 0, 0, <<>>)
    /\ refresh' = Idle
    /\ UNCHANGED <<llmVars, now, reqs, stocks, portfolio, recs, hist>>

\* Lines 257-260 when the database refuses the commit of rows it could have taken
\* (the connection is lost, the file is locked).
RefreshDbFail ==
    /\ refresh.pc = "running"
    /\ AllProcessed
    /\ sessOk /\ PendingStorable
    /\ sessRecs' = Empty
    /\ sessHist' = Empty
    /\ sessOk' = TRUE
    /\ ret' = Result(TRUE, 0, 0, 0, <<>>)
    /\ refresh' = Idle
    /\ UNCHANGED <<llmVars, now, reqs, stocks, portfolio, recs, hist>>

----------------------------------------------------------------------------
(* analyze_stock thread by thread: the three analyzer tasks on the pool of  *)
(* line 110, the as_completed loop of the calling thread, the synthesizer.  *)

NoThreads == [pc |-> "idle"]

\* The analysis kinds of future_to_analysis, in submission order.
Kinds == <<"news_sentiment", "technical_analysis", "fundamental_analysis">>
KindSet == {Kinds[i] : i \in 1..Len(Kinds)}

\* ThreadPoolExecutor(max_workers=3).
ExecutorWorkers == 3

\* What the analyzer of kind k returns for the data and the reply of env.
AnalyzerOf(k, avail, env) ==
    IF k = "news_sentiment" THEN _analyze_news_sentiment(avail, env.news, env.rN)
    ELSE IF k = "technical_analysis"
    THEN _analyze_technical_indicators(avail, env.tech, env.rT)
    ELSE _analyze_fundamentals(avail, env.fund, env.rF)

\* The defaults of results.get (lines 130-132) for a kind without a result.
Missing(k) ==
    [score |-> Num(0), raised |-> FALSE,
     reasoning |-> IF k = "news_sentiment" THEN "News analysis failed"
                   ELSE IF k = "technical_analysis" THEN "Technical analysis failed"
                   ELSE "Fundamental analysis failed"]

Submitted == [st |-> "queued", tmp |-> 0, out |-> "NONE"]

\* The results dict of line 119 has no entry for the kind.
NoResult == [missing |-> TRUE]
Has(results, k) == "score" \in DOMAIN results[k]

\* The task's pool thread is inside the analyzer.
InFlight(task) == task.st \in {"running", "loaded", "calling"}

\* Lines 96-116: the data is fetched on the calling thread, then the three tasks are
\* submitted.  before and issued are not program state: the counter when the call
\* began and the number of generate_content calls made since.
AnalyzeStart(s, env) ==
    /\ refresh.pc = "idle"
    /\ threads.pc = "idle"
    /\ gemini_call_count + Len(Kinds) + 1 <= MaxCalls
    /\ threads' = [pc |-> "fanin", symbol |-> s, env |-> env,
                   tasks |-> [k \in KindSet |-> Submitted],
                   completed |-> <<>>, collected |-> 0,
                   results |-> [k \in KindSet |-> NoResult],
                   synth |-> 0, out |-> "NONE",
                   before |-> gemini_call_count, issued |-> 0]
    /\ UNCHANGED <<llm_available, gemini_call_count, call, storeVars>>

\* A pool thread takes the task, when one of the max_workers threads is free.
TaskStart(k) ==
    /\ threads.pc = "fanin"
    /\ threads.tasks[k].st = "queued"
    /\ Cardinality({x \in KindSet : InFlight(threads.tasks[x])}) < ExecutorWorkers
    /\ threads' = [threads EXCEPT !.tasks[k].st = "running"]
    /\ UNCHANGED <<llm_available, gemini_call_count, call, storeVars>>

\* The analyzer up to the read of self.gemini_call_count in line 44: it returns at
\* once without data or without a configured model, and otherwise reads the counter.
TaskLoad(k) ==
    LET r == AnalyzerOf(k, llm_available, threads.env)
    IN  /\ threads.pc = "fanin"
        /\ threads.tasks[k].st = "running"
        /\ IF r.calls = 0
           THEN threads' = [threads EXCEPT
                               !.tasks[k] = [st |-> "done", tmp |-> 0,
                                             out |-> [score |-> r.score,
                                                      reasoning |-> r.reasoning,
                                                      raised |-> r.raised]],
                               !.completed = Append(@, k)]
           ELSE threads' = [threads EXCEPT !.tasks[k].st = "loaded",
                                           !.tasks[k].tmp = gemini_call_count]
        /\ UNCHANGED <<llm_available, gemini_call_count, call, storeVars>>

\* The write of line 44: the value read, plus one.  generate_content follows.
TaskStore(k) ==
    /\ threads.pc = "fanin"
    /\ threads.tasks[k].st = "loaded"
    /\ gemini_call_count' = threads.tasks[k].tmp + 1
    /\ threads' = [threads EXCEPT !.tasks[k].st = "calling", !.issued = @ + 1]
    /\ UNCHANGED <<llm_available, call, storeVars>>

\* The model has answered (or failed to) and the analyzer returns: the future is done.
TaskReturn(k) ==
    LET r == AnalyzerOf(k, llm_available, threads.env)
    IN  /\ threads.pc = "fanin"
        /\ threads.tasks[k].st = "calling"
        /\ threads' = [threads EXCEPT
                          !.tasks[k].st = "done",
                          !.tasks[k].out = [score |-> r.score, reasoning |-> r.reasoning,
                                            raised |-> r.raised],
                          !.completed = Append(@, k)]
        /\ UNCHANGED <<llm_available, gemini_call_count, call, storeVars>>

\* Mutant of Attributed: the results are filed in completion order, the first under
\* the first kind.
AttributedByOrder(k, position) == Kinds[position]

\* Line 121: the kind a completed future's result is filed under: the one it was
\* submitted for, whatever its position in the completion order.
Attributed(k, position) == k

\* One turn of the as_completed loop (lines 120-127): the next completed future.
Collect ==
    /\ threads.pc = "fanin"
    /\ threads.collected < Len(threads.completed)
    /\ LET position == threads.collected + 1
           k == threads.completed[position]
           r == threads.tasks[k].out
       IN  threads' = [threads EXCEPT
                          !.collected = position,
                          !.results[Attributed(k, position)] =
                              IF r.raised
                              THEN [score |-> Num(0), reasoning |-> "Error", raised |-> FALSE]
                              ELSE r]
    /\ UNCHANGED <<llm_available, gemini_call_count, call, storeVars>>

\* Mutant of FanInDone: the loop is left at the first completed future.
FanInFirst == threads.collected >= 1

\* The loop has yielded every future and the with block of line 110 is left.
FanInDone == threads.collected = Len(Kinds)

Got(k) == IF Has(threads.results, k) THEN threads.results[k] ELSE Missing(k)

\* Lines 130-158: the synthesizer on the calling thread, and the result of
\* analyze_stock (raised: the format of line 154 raised and line 162 re-raised).
Synthesize ==
    /\ threads.pc = "fanin"
    /\ FanInDone
    /\ LET s == _generate_final_recommendation(llm_available, TRUE, threads.env.rS)
       IN  /\ gemini_call_count' = gemini_call_count + s.calls
           /\ threads' = [threads EXCEPT
                             !.pc = "done",
                             !.synth = @ + 1,
                             !.issued = @ + s.calls,
                             !.out = [raised            |-> s.confidence.t # "num",
                                      recommendation    |-> s.recommendation,
                                      confidence_score  |-> s.confidence,
                                      news_sentiment    |-> Got("news_sentiment").score,
                                      technical_score   |-> Got("technical_analysis").score,
                                      fundamental_score |->
                                          Got("fundamental_analysis").score]]
    /\ UNCHANGED <<llm_available, call, storeVars>>

\* analyze_stock has returned (or raised) and its caller goes on.
AnalyzeReturn ==
    /\ threads.pc = "done"
    /\ threads' = NoThreads
    /\ UNCHANGED <<llm_available, gemini_call_count, call, storeVars>>

----------------------------------------------------------------------------
(* The model calls of a refresh pass: analyze_single_stock on the pool       *)
(* threads, one generate_content call at a time.                            *)

\* The task of a pool thread that is inside
\* analyze_stock: begun of the analyzers' generate_content calls have been issued and
\* open of them have not returned yet.
Analyzing == [st |-> "analyzing", success |-> FALSE, analysis |-> "NONE", begun |-> 0,
              open |-> 0]

\* llm_analysis_service.py lines 96-116: the pool thread has fetched the data and
\* submitted the three analyzers to a ThreadPoolExecutor(max_workers=3) of its own.
AnalysisStart(h) ==
    /\ refresh.pc = "running"
    /\ refresh.tasks[h].st = "running"
    /\ refresh' = [refresh EXCEPT !.tasks[h] = Analyzing]
    /\ UNCHANGED <<llmVars, now, reqs, stocks, portfolio, recs, hist, sessRecs, sessHist, sessOk,
                   ret>>

\* Line 51 on an analyzer thread of task h: generate_content is entered.  Nothing is
\* waited for: max_parallel_calls is not read anywhere.  The counter is brought up
\* to date when the analysis ends.
GeminiBegin(h, env) ==
    /\ refresh.pc = "running"
    /\ refresh.tasks[h].st = "analyzing"
    /\ refresh.tasks[h].begun < analyze_stock(llm_available, env).racing
    /\ refresh.tasks[h].open < ExecutorWorkers
    /\ refresh' = [refresh EXCEPT !.tasks[h].begun = @ + 1, !.tasks[h].open = @ + 1]
    /\ UNCHANGED <<llmVars, now, reqs, stocks, portfolio, recs, hist, sessRecs, sessHist, sessOk,
                   ret>>

\* Lines 51-61: generate_content has returned or raised.
GeminiEnd(h) ==
    /\ refresh.pc = "running"
    /\ refresh.tasks[h].st = "analyzing"
    /\ refresh.tasks[h].open > 0
    /\ refresh' = [refresh EXCEPT !.tasks[h].open = @ - 1]
    /\ UNCHANGED <<llmVars, now, reqs, stocks, portfolio, recs, hist, sessRecs, sessHist, sessOk,
                   ret>>

\* The analyzers' calls are over: the synthesizer makes its own and
\* analyze_single_stock returns.
AnalysisEnd(h, env) ==
    /\ refresh.tasks[h].st = "analyzing"
    /\ refresh.tasks[h].begun = analyze_stock(llm_available, env).racing
    /\ refresh.tasks[h].open = 0
    /\ AnalyzeSingleStock(h, env, "analyzing")

----------------------------------------------------------------------------
(* The specification of the store and the refresh driver.                   *)

NoCall == [fn |-> "none"]

\* Stock rows of the symbols S as the provider created them at time 0, and holdings
\* hs of 10 shares bought at 100.
Listed(S) == SetToBag({[symbol |-> s, current_price |-> 100, last_updated |-> 0] : s \in S})
Held(hs) == SetToBag({PortfolioRow(h[1], h[2], Lot(10, Frac(100, 1))) : h \in hs})

Init ==
    /\ llm_available \in BOOLEAN
    /\ gemini_call_count = 0
    /\ call = NoCall
    /\ stocks = EmptyBag
    /\ portfolio = EmptyBag
    /\ recs = Empty
    /\ hist = Empty
    /\ sessRecs = Empty
    /\ sessHist = Empty
    /\ sessOk = TRUE
    /\ refresh = Idle
    /\ ret = [op |-> "none"]
    /\ threads = NoThreads
    /\ now = 0
    /\ reqs = NoReqs

Next ==
    \/ \E u \in Users, s \in Symbols : AddStock(u, s, MaxShares, 100, TRUE)
    \/ \E u \in Users, s \in Symbols : UpstoxSync(u, s, MaxShares, 100, 100)
    \/ \E s \in Symbols, dbok \in BOOLEAN :
          \E env \in EnvsFor(s, StoreReplies) : CreateRecommendation(s, env, dbok)
    \/ RefreshEmpty
    \/ RefreshStart(MaxRecs, MaxCalls)
    \/ \E h \in DOMAIN refresh.tasks :
          \E env \in EnvsFor(h[2], StoreReplies) : AnalyzeSingleStock(h, env, "queued")
    \/ \E h \in DOMAIN refresh.tasks : ProcessResult(h)
    \/ RefreshCommit
    \/ RefreshFail
    \/ RefreshDbFail

Spec == Init /\ [][Next]_vars

----------------------------------------------------------------------------
(* The five-holding portfolio: one user holds the five symbols, of which    *)
(* the provider cannot resolve ZZZZ (its Stock row came from a brokerage    *)
(* sync).  The model answers every synthesis with a BUY or a SELL.          *)

FiveReplies == {SynthJson("BUY", Num(80)), SynthJson("SELL", Num(80))}

FiveRecs == Cardinality(FiveSymbols)
FiveCalls == 4 * Cardinality(FiveSymbols)

InitFive ==
    /\ llm_available \in BOOLEAN
    /\ gemini_call_count = 0
    /\ call = NoCall
    /\ stocks = Listed(FiveSymbols)
    /\ portfolio = Held({<<1, s>> : s \in FiveSymbols})
    /\ recs = Empty
    /\ hist = Empty
    /\ sessRecs = Empty
    /\ sessHist = Empty
    /\ sessOk = TRUE
    /\ refresh = Idle
    /\ ret = [op |-> "none"]
    /\ threads = NoThreads
    /\ now = 0
    /\ reqs = NoReqs

NextFive ==
    \/ RefreshStart(FiveRecs, FiveCalls)
    \/ \E h \in DOMAIN refresh.tasks :
          \E env \in EnvsFor(h[2], FiveReplies) : AnalyzeSingleStock(h, env, "queued")
    \/ \E h \in DOMAIN refresh.tasks : ProcessResult(h)
    \/ RefreshCommit
    \/ RefreshDbFail

SpecFive == InitFive /\ [][NextFive]_vars

----------------------------------------------------------------------------
(* The portfolio on its own: purchases of one or two lots at either price,  *)
(* accepted or refused by the database, and brokerage syncs.                *)

Lots == {10, 20}
Costs == {80, 100}

NextPortfolio ==
    \/ \E u \in Users, s \in Symbols, shares \in Lots, average_cost \in Costs :
          \E dbok \in BOOLEAN : AddStock(u, s, shares, average_cost, dbok)
    \/ \E u \in Users, s \in Symbols, quantity \in Lots, average_price \in Costs :
          UpstoxSync(u, s, quantity, average_price, 100)

SpecPortfolio == Init /\ [][NextPortfolio]_vars

----------------------------------------------------------------------------
(* The three writers of table portfolio together: purchases and sales,      *)
(* brokerage syncs, and account-aggregator syncs, which may report no units.*)

Trades == {-20, 20}
Units == {0, 20}

NextSync ==
    \/ \E u \in Users, s \in Symbols, shares \in Trades, dbok \in BOOLEAN :
          AddStock(u, s, shares, 100, dbok)
    \/ \E u \in Users, s \in Symbols : UpstoxSync(u, s, 20, 100, 100)
    \/ \E u \in Users, s \in Symbols, units \in Units : SetuSync(u, s, units, 100)

SpecSync == Init /\ [][NextSync]_vars

----------------------------------------------------------------------------
(* The price refresh of one Stock row, called at any minute.                *)

\* A Stock row that has no last_updated (written by hand or by an earlier version of
\* the schema), or one the provider created at time 0.
InitPrice ==
    /\ llm_available \in BOOLEAN
    /\ gemini_call_count = 0
    /\ call = NoCall
    /\ threads = NoThreads
    /\ now = 0
    /\ reqs = NoReqs
    /\ \E t \in {NoTime, 0} :
          stocks = SetToBag({[symbol |-> "AAPL", current_price |-> 100, last_updated |-> t]})
    /\ portfolio = Held({<<1, "AAPL">>})
    /\ recs = Empty
    /\ hist = Empty
    /\ sessRecs = Empty
    /\ sessHist = Empty
    /\ sessOk = TRUE
    /\ refresh = Idle
    /\ ret = [op |-> "none"]

NextPrice ==
    \/ \E info \in Quotes, dbok \in BOOLEAN : UpdateStockPriceIfNeeded("AAPL", info, dbok)
    \/ \E minutes \in {1, 15} : Tick(minutes, MaxTime)

SpecPrice == InitPrice /\ [][NextPrice]_vars

----------------------------------------------------------------------------
(* Two /api/analyze/AAPL requests on a threaded server, over a store that   *)
(* is empty or holds one HOLD of an earlier run.                            *)

RaceReplies == {SynthJson("BUY", Num(80)), SynthJson("SELL", Num(80)),
                SynthJson("HOLD", Num(80))}

HoldRow == [recommendation |-> "HOLD", confidence_score |-> Num(50),
            news_sentiment |-> Num(0), technical_score |-> Num(0),
            fundamental_score |-> Num(0)]

InitRace ==
    /\ llm_available = TRUE
    /\ gemini_call_count = 0
    /\ call = NoCall
    /\ threads = NoThreads
    /\ now = 0
    /\ reqs = NoReqs
    /\ stocks = Listed({"AAPL"})
    /\ portfolio = EmptyBag
    /\ recs \in {Empty, [Empty EXCEPT !["AAPL"] = <<HoldRow>>]}
    /\ hist = Empty
    /\ sessRecs = Empty
    /\ sessHist = Empty
    /\ sessOk = TRUE
    /\ refresh = Idle
    /\ ret = [op |-> "none"]

NextRace ==
    \/ \E r \in Requests : \E env \in EnvsFor("AAPL", RaceReplies) : ReqRead(r, "AAPL", env)
    \/ \E r \in Requests, dbok \in BOOLEAN : ReqWrite(r, dbok)

SpecRace == InitRace /\ [][NextRace]_vars

----------------------------------------------------------------------------
(* sample_data.py --clear, next to the operations that fill the tables.     *)

\* clear_existing_data: every Recommendation, Portfolio, Stock and User row is
\* deleted and the deletion committed; RecommendationHistory is not among the tables
\* it deletes from.  dbok: whether the database carries the deletes and the commit
\* out (one that enforces foreign keys refuses to delete a Stock that a
\* RecommendationHistory row refers to); if not, lines 111-113 roll back.
ClearExistingData(dbok) ==
    /\ refresh.pc = "idle"
    /\ IF dbok
       THEN /\ recs' = Empty
            /\ portfolio' = EmptyBag
            /\ stocks' = EmptyBag
            /\ ret' = [op |-> "clear", ok |-> TRUE]
       ELSE /\ ret' = [op |-> "clear", ok |-> FALSE]
            /\ UNCHANGED <<recs, portfolio, stocks>>
    /\ UNCHANGED <<llmVars, now, reqs, hist, sessRecs, sessHist, sessOk, refresh>>

NextAdmin ==
    \/ \E u \in Users, s \in Symbols : AddStock(u, s, MaxShares, 100, TRUE)
    \/ \E s \in Symbols, dbok \in BOOLEAN :
          \E env \in EnvsFor(s, StoreReplies) : CreateRecommendation(s, env, dbok)
    \/ \E dbok \in BOOLEAN : ClearExistingData(dbok)

SpecAdmin == Init /\ [][NextAdmin]_vars

----------------------------------------------------------------------------
(* Threads: analyze_stock task by task, and a refresh pass over six         *)
(* holdings whose analyses are taken up by the pool one thread at a time.   *)

SixHoldings == {<<1, s>> : s \in FiveSymbols} \cup {<<2, "AAPL">>}
SixRecs == Cardinality(SixHoldings)
SixCalls == 4 * Cardinality(SixHoldings)

Score(n) == [kind |-> "json", err |-> FALSE, score |-> Num(n), rec |-> "ABSENT",
             conf |-> Absent]

\* What the providers answer during one thread-level analysis: the news model call
\* succeeds or fails, the other two succeed with scores of their own, and the
\* synthesis carries a confidence that is a number or a string.
ThreadEnvs(s) ==
    {DataFor(s) @@ [rN |-> n, rT |-> Score(-100), rF |-> Score(250), rS |-> r] :
        n \in {Score(70), Unreachable},
        r \in {SynthJson("BUY", Num(80)), SynthJson("BUY", Str)}}

PoolReplies == {SynthJson("BUY", Num(80))}

InitThreads ==
    /\ llm_available \in BOOLEAN
    /\ gemini_call_count = 0
    /\ call = NoCall
    /\ threads = NoThreads
    /\ stocks = Listed(FiveSymbols)
    /\ portfolio = Held(SixHoldings)
    /\ recs = Empty
    /\ hist = Empty
    /\ sessRecs = Empty
    /\ sessHist = Empty
    /\ sessOk = TRUE
    /\ refresh = Idle
    /\ ret = [op |-> "none"]
    /\ now = 0
    /\ reqs = NoReqs

NextThreads ==
    \/ \E s \in Symbols : \E env \in ThreadEnvs(s) : AnalyzeStart(s, env)
    \/ \E k \in KindSet : TaskStart(k)
    \/ \E k \in KindSet : TaskLoad(k)
    \/ \E k \in KindSet : TaskStore(k)
    \/ \E k \in KindSet : TaskReturn(k)
    \/ Collect
    \/ Synthesize
    \/ AnalyzeReturn
    \/ RefreshStart(SixRecs, SixCalls)
    \/ \E h \in DOMAIN refresh.tasks : PoolStart(h)
    \/ \E h \in DOMAIN refresh.tasks :
          \E env \in EnvsFor(h[2], PoolReplies) : AnalyzeSingleStock(h, env, "running")
    \/ \E h \in DOMAIN refresh.tasks : ProcessResult(h)
    \/ RefreshCommit

SpecThreads == InitThreads /\ [][NextThreads]_vars

----------------------------------------------------------------------------
(* Model calls: a refresh pass over four holdings with the model configured, *)
(* every generate_content call of the analyzers a step of its own.           *)

FourHoldings == {<<1, s>> : s \in FiveSymbols \ {"ZZZZ"}}

InitCalls ==
    /\ llm_available = TRUE
    /\ gemini_call_count = 0
    /\ call = NoCall
    /\ threads = NoThreads
    /\ stocks = Listed(FiveSymbols \ {"ZZZZ"})
    /\ portfolio = Held(FourHoldings)
    /\ recs = Empty
    /\ hist = Empty
    /\ sessRecs = Empty
    /\ sessHist = Empty
    /\ sessOk = TRUE
    /\ refresh = Idle
    /\ ret = [op |-> "none"]
    /\ now = 0
    /\ reqs = NoReqs

NextCalls ==
    \/ RefreshStart(Cardinality(FourHoldings), 4 * Cardinality(FourHoldings))
    \/ \E h \in DOMAIN refresh.tasks : PoolStart(h)
    \/ \E h \in DOMAIN refresh.tasks : AnalysisStart(h)
    \/ \E h \in DOMAIN refresh.tasks :
          \E env \in EnvsFor(h[2], PoolReplies) : GeminiBegin(h, env)
    \/ \E h \in DOMAIN refresh.tasks : GeminiEnd(h)
    \/ \E h \in DOMAIN refresh.tasks :
          \E env \in EnvsFor(h[2], PoolReplies) : AnalysisEnd(h, env)

SpecCalls == InitCalls /\ [][NextCalls]_vars

----------------------------------------------------------------------------
(* Termination: the thread-level specification over two holdings, with      *)
(* the failures of a pass, under the assumption that a thread that can take *)
(* a step takes one and that every call to a provider returns or fails.     *)

FairHoldings == {<<1, "AAPL">>, <<2, "AAPL">>}

\* The synthesizer replies of the passes: a BUY, an object whose recommendation is
\* null, which no Recommendation row can hold, and one whose confidence is a string,
\* on which analyze_stock raises.
FairReplies == {SynthJson("BUY", Num(80)), SynthJson("NULL", Num(80)),
                SynthJson("BUY", Str)}

InitFair ==
    /\ llm_available \in BOOLEAN
    /\ gemini_call_count = 0
    /\ call = NoCall
    /\ threads = NoThreads
    /\ stocks = Listed({"AAPL"})
    /\ portfolio = Held(FairHoldings)
    /\ recs = Empty
    /\ hist = Empty
    /\ sessRecs = Empty
    /\ sessHist = Empty
    /\ sessOk = TRUE
    /\ refresh = Idle
    /\ ret = [op |-> "none"]
    /\ now = 0
    /\ reqs = NoReqs

\* The steps of the pool threads and of the two loops that collect their results:
\* everything but the arrival of a request.
Progress ==
    \/ \E k \in KindSet : TaskStart(k)
    \/ \E k \in KindSet : TaskLoad(k)
    \/ \E k \in KindSet : TaskStore(k)
    \/ \E k \in KindSet : TaskReturn(k)
    \/ Collect
    \/ Synthesize
    \/ AnalyzeReturn
    \/ \E h \in DOMAIN refresh.tasks : PoolStart(h)
    \/ \E h \in DOMAIN refresh.tasks :
          \E env \in EnvsFor(h[2], FairReplies) : AnalyzeSingleStock(h, env, "running")
    \/ \E h \in DOMAIN refresh.tasks : ProcessResult(h)
    \/ RefreshCommit
    \/ RefreshFail
    \/ RefreshDbFail

NextFair ==
    \/ \E s \in Symbols : \E env \in ThreadEnvs(s) : AnalyzeStart(s, env)
    \/ RefreshStart(Cardinality(FairHoldings), 4 * Cardinality(FairHoldings))
    \/ Progress

SpecFair == InitFair /\ [][NextFair]_vars /\ WF_vars(Progress)

----------------------------------------------------------------------------
(* The analyzers and the synthesizer, called one at a time with every data  *)
(* slice and every reply of the model.                                      *)

\* The call as the caller sees it: what went in, what came back, and the counter
\* before it.
Called(fn, data, wellFormed, reply, out) ==
    /\ gemini_call_count + out.calls <= MaxCalls
    /\ gemini_call_count' = gemini_call_count + out.calls
    /\ call' = [fn |-> fn, data |-> data, wellFormed |-> wellFormed, reply |-> reply,
                out |-> out, before |-> gemini_call_count]
    /\ UNCHANGED <<llm_available, threads, storeVars>>

NewsSentiment(data, reply) ==
    Called("news", data, TRUE, reply, _analyze_news_sentiment(llm_available, data, reply))

TechnicalIndicators(data, reply) ==
    Called("technical", data, TRUE, reply,
           _analyze_technical_indicators(llm_available, data, reply))

Fundamentals(data, reply) ==
    Called("fundamental", data, TRUE, reply,
           _analyze_fundamentals(llm_available, data, reply))

FinalRecommendation(wellFormed, reply) ==
    Called("final", "ok", wellFormed, reply,
           _generate_final_recommendation(llm_available, wellFormed, reply))

NextLLM ==
    \/ \E data \in {"ok", "empty"}, reply \in AnalyzerReplies : NewsSentiment(data, reply)
    \/ \E data \in {"ok", "empty"}, reply \in AnalyzerReplies :
          TechnicalIndicators(data, reply)
    \/ \E data \in DataKinds, reply \in AnalyzerReplies : Fundamentals(data, reply)
    \/ \E wellFormed \in BOOLEAN, reply \in SynthReplies :
          FinalRecommendation(wellFormed, reply)

SpecLLM == Init /\ [][NextLLM]_vars

----------------------------------------------------------------------------
(* The technical indicators of histories of every length up to MaxSessions, *)
(* flat, falling and rising at different rates.                             *)

\* The history of n sessions that starts at first and moves by step a session.
History(n, first, step) == [i \in 1..n |-> first + step * (i - 1)]

Histories ==
    {History(n, first, step) : n \in 0..MaxSessions, first \in {100, 200},
                               step \in {-1, 0, 2, 3}}

GetTechnicalIndicators(closes) ==
    /\ call' = [fn |-> "indicators", closes |-> closes,
                out |-> _get_technical_indicators(closes)]
    /\ UNCHANGED <<llm_available, gemini_call_count, threads, storeVars>>

NextMomentum == \E closes \in Histories : GetTechnicalIndicators(closes)

SpecMomentum == Init /\ [][NextMomentum]_vars

----------------------------------------------------------------------------
(* Properties of the store.                                                 *)

\* The actions of a sequence of Recommendation rows.
ActionsOf(rows) == [i \in 1..Len(rows) |-> rows[i].recommendation]

\* A sequence with each run of equal consecutive elements collapsed to one.
RECURSIVE Collapse(_)
Collapse(q) ==
    IF Len(q) <= 1 THEN q
    ELSE LET rest == Collapse(Tail(q))
         IN  IF q[1] = q[2] THEN rest ELSE <<q[1]>> \o rest

\* The first action, then the new action of each RecommendationHistory row.
Replay(first, changes) ==
    <<first>> \o [i \in 1..Len(changes) |-> changes[i].new_recommendation]

\* The transitions between consecutive Recommendation rows whose actions differ.
RECURSIVE ChangesOf(_)
ChangesOf(q) ==
    IF Len(q) <= 1 THEN <<>>
    ELSE IF q[1] = q[2] THEN ChangesOf(Tail(q))
    ELSE <<[previous_recommendation |-> q[1], new_recommendation |-> q[2]]>>
             \o ChangesOf(Tail(q))

\* A step in which create_recommendation_for_stock recorded a Recommendation for s:
\* the only step outside a refresh pass that returns a create result.
CreateOk(s) ==
    /\ refresh.pc = "idle"
    /\ refresh'.pc = "idle"
    /\ ret'.op = "create"
    /\ ret'.ok
    /\ ret'.symbol = s

\* A step in which the refresh loop recorded the Recommendation of holding h.
ProcessOk(h) ==
    /\ refresh.pc = "running"
    /\ refresh'.pc = "running"
    /\ refresh.tasks[h].st = "done"
    /\ refresh'.tasks[h].st = "processed"
    /\ refresh'.updated_count = refresh.updated_count + 1

\* A successful record step for s, and the action it synthesized: the one create
\* returns, or the one of the analysis result the refresh loop is processing.
Records(s, N) ==
    \/ CreateOk(s) /\ ret'.recommendation = N
    \/ \E h \in DOMAIN refresh.tasks :
          h[2] = s /\ ProcessOk(h) /\ refresh.tasks[h].analysis.recommendation = N

\* C1: for every instrument, the actions of its Recommendation rows in creation
\* order, consecutive duplicates collapsed, are the first Recommendation's action
\* followed by the new actions of its RecommendationHistory rows in creation order
\* (and an instrument without Recommendation has no RecommendationHistory).
C1_HistoryReplaysRecommendations ==
    \A s \in AllSymbols :
        IF Visible(s) = <<>> THEN VisibleHist(s) = <<>>
        ELSE Collapse(ActionsOf(Visible(s))) =
                 Replay(Visible(s)[1].recommendation, VisibleHist(s))

\* C1 witness: an instrument with three committed Recommendations, a repeated action
\* among them and one change.
C1_Witness ==
    \E s \in Symbols :
        /\ Len(recs[s]) = 3
        /\ Len(hist[s]) = 1
        /\ recs[s][1].recommendation = recs[s][2].recommendation

\* C2: every successful record operation (create_recommendation_for_stock, the
\* per-symbol write of the refresh) adds exactly one Recommendation row, for its
\* instrument, and adds no RecommendationHistory row when the instrument had no
\* Recommendation or its latest one has the same action as the new one.
C2_OneRowNoSpuriousChange ==
    [][\A s \in Symbols : \A N \in RecValues :
          Records(s, N) =>
            /\ Len(Visible(s)') = Len(Visible(s)) + 1
            /\ SubSeq(Visible(s)', 1, Len(Visible(s))) = Visible(s)
            /\ TotalRecs' = TotalRecs + 1
            /\ (Latest(s) = "NONE" \/ Latest(s) = N) =>
                   \A x \in AllSymbols : VisibleHist(x)' = VisibleHist(x)]_vars

\* C2 witness: the same action recorded twice in succession: two Recommendation
\* rows and no change row.
C2_Witness ==
    \E s \in Symbols :
        /\ Len(recs[s]) = 2
        /\ recs[s][1].recommendation = recs[s][2].recommendation
        /\ hist[s] = <<>>

\* C3: a record operation for an instrument whose latest Recommendation has action
\* P, with a new action N other than P, adds exactly one Recommendation row, with
\* action N, and exactly one RecommendationHistory row, with previous P and new N.
C3_ChangeRowRecordsTransition ==
    [][\A s \in Symbols : \A N \in RecValues :
          (Records(s, N) /\ Latest(s) # "NONE" /\ Latest(s) # N) =>
            /\ Len(Visible(s)') = Len(Visible(s)) + 1
            /\ TotalRecs' = TotalRecs + 1
            /\ Latest(s)' = N
            /\ VisibleHist(s)' =
                   Append(VisibleHist(s), [previous_recommendation |-> Latest(s),
                                           new_recommendation |-> N])
            /\ \A x \in AllSymbols \ {s} : VisibleHist(x)' = VisibleHist(x)]_vars

\* C3 witness: the latest Recommendation was HOLD, the new one is SELL, and the
\* change row says so.
C3_Witness ==
    \E s \in Symbols :
        /\ Len(recs[s]) = 2
        /\ recs[s][1].recommendation = "HOLD"
        /\ recs[s][2].recommendation = "SELL"
        /\ hist[s] = <<[previous_recommendation |-> "HOLD", new_recommendation |-> "SELL"]>>

\* C4: in every committed state the RecommendationHistory rows of an instrument
\* are exactly the transitions between its consecutive Recommendation rows of
\* different action: no Recommendation lacks the change row it requires and no
\* change row lacks its Recommendation, whatever failed before.
C4_CommittedRowsArePaired ==
    \A s \in AllSymbols : hist[s] = ChangesOf(ActionsOf(recs[s]))

\* C4 witness: a refresh pass that failed as a whole after rows with a required
\* change row were in its session, over a store that holds committed changes.
C4_Witness ==
    /\ ret.op = "refresh"
    /\ ret.raised
    /\ \E s \in Symbols : Len(recs[s]) = 2 /\ Len(hist[s]) = 1

----------------------------------------------------------------------------
(* Properties of the refresh driver.                                        *)

\* The step that ends a refresh pass: the commit of line 241 or the raise of line 260.
PassEnds == refresh.pc = "running" /\ refresh'.pc = "idle"

\* The database refused a commit whose rows it could have taken.
DbRefused == sessOk /\ PendingStorable /\ ret'.raised

\* The holding's analysis raised, or synthesized a row that cannot be inserted.
Failed(h) ==
    \/ ~refresh.tasks[h].success
    \/ ~Storable(refresh.tasks[h].analysis)

\* The holdings of s whose analysis succeeded with a row that can be inserted.
Good(s) == {h \in DOMAIN refresh.tasks : h[2] = s /\ ~Failed(h)}

Names(errors, s) == \E i \in 1..Len(errors) : errors[i].symbol = s

\* The symbols of the pass with a failed holding, and those with none.
FailedSymbols == {h[2] : h \in {x \in DOMAIN refresh.tasks : Failed(x)}}
SparedSymbols == {h[2] : h \in DOMAIN refresh.tasks} \ FailedSymbols

\* C5: when exactly one symbol of a refresh pass fails (its analysis raises, or its
\* result cannot be written), another symbol's analysis succeeds and the database
\* is otherwise sound, the pass returns, the Recommendation of every other symbol
\* is committed in that pass, and the error list has exactly one entry, naming the
\* failed symbol.
C5_OneFailureSparesTheOthers ==
    [][(/\ PassEnds
        /\ ~DbRefused
        /\ Cardinality(FailedSymbols) = 1
        /\ Cardinality({h \in DOMAIN refresh.tasks : Failed(h)}) = 1
        /\ SparedSymbols # {}) =>
            /\ ~ret'.raised
            /\ \A s \in SparedSymbols : Len(recs'[s]) = Len(recs[s]) + Cardinality(Good(s))
            /\ Len(ret'.errors) = 1
            /\ \A s \in FailedSymbols : Names(ret'.errors, s)]_vars

\* C6: a refresh of five active holdings of which exactly one symbol is unknown to
\* the market-data provider returns updated_count 4, total_stocks 5 and one error,
\* naming that symbol.
C6_FiveHoldingsOneNotFound ==
    (/\ ret.op = "refresh"
     /\ ~ret.raised
     /\ ret.total_stocks = 5
     /\ Cardinality({h \in holdings : ~Resolvable(h[2])}) = 1) =>
        /\ ret.updated_count = 4
        /\ Len(ret.errors) = 1
        /\ \A h \in holdings : ~Resolvable(h[2]) => Names(ret.errors, h[2])

\* C7: a refresh pass never fails as a whole: it returns its counters and error list,
\* the rows of the holdings that could be written are committed, and every holding
\* that could not be analysed or written is named by an error string.
C7_RefreshAlwaysReturns ==
    [][PassEnds =>
          /\ ~ret'.raised
          /\ \A s \in AllSymbols : Len(recs'[s]) = Len(recs[s]) + Cardinality(Good(s))
          /\ \A h \in DOMAIN refresh.tasks : Failed(h) => Names(ret'.errors, h[2])]_vars

\* C8: no Recommendation row exists, committed or in a session, for a symbol the
\* market-data provider cannot resolve.
C8_NoRecommendationForUnresolvable ==
    \A s \in AllSymbols : ~Resolvable(s) => Visible(s) = <<>>

\* C22: in a refresh pass each symbol is analysed by at most one task and gets at most
\* one Recommendation, whoever holds it: active holdings of one symbol by different
\* owners count once.
C22_OneAnalysisPerSymbol ==
    refresh.pc = "running" =>
        \A s \in AllSymbols :
            /\ Cardinality({h \in DOMAIN refresh.tasks : h[2] = s}) <= 1
            /\ Len(sessRecs[s]) <= 1

\* C26: in every result refresh_all_recommendations returns, updated_count plus the
\* number of errors is total_stocks and 0 <= changed_count <= updated_count <=
\* total_stocks; without active holdings the counters are 0 and errors is empty.
C26_CountersAddUp ==
    (ret.op = "refresh" /\ ~ret.raised) =>
        /\ ret.updated_count + Len(ret.errors) = ret.total_stocks
        /\ 0 <= ret.changed_count
        /\ ret.changed_count <= ret.updated_count
        /\ ret.updated_count <= ret.total_stocks
        /\ holdings = {} =>
              /\ ret.updated_count = 0
              /\ ret.changed_count = 0
              /\ ret.total_stocks = 0
              /\ ret.errors = <<>>

\* C26 witness: a pass over two holdings returned one recorded result and one error.
C26_Witness ==
    /\ ret.op = "refresh"
    /\ ~ret.raised
    /\ ret.total_stocks = 2
    /\ ret.updated_count = 1
    /\ Len(ret.errors) = 1

\* C27: when refresh_all_recommendations returns, updated_count is the number of
\* Recommendation rows and changed_count the number of RecommendationHistory rows
\* that the pass committed.
C27_CountersMatchCommittedRows ==
    [][(PassEnds /\ ~ret'.raised) =>
          /\ ret'.updated_count = SumLen(recs', AllSymbols) - SumLen(recs, AllSymbols)
          /\ ret'.changed_count = SumLen(hist', AllSymbols) - SumLen(hist, AllSymbols)]_vars

\* C27 witness: a pass has returned two recorded results, the second a change of the
\* first, and the store holds these two Recommendations and the one change.
C27_Witness ==
    /\ ret.op = "refresh"
    /\ ~ret.raised
    /\ ret.updated_count = 2
    /\ ret.changed_count = 1
    /\ SumLen(recs, AllSymbols) = 2
    /\ SumLen(hist, AllSymbols) = 1

----------------------------------------------------------------------------
(* Properties of the analyzers and the synthesizer.                         *)

\* The model call of the last invocation failed: unreachable, unparseable, no JSON
\* object, or an object carrying an error.
CallFailed == call.reply.kind # "json" \/ call.reply.err

UnavailableTexts ==
    {"No recent news available", "No technical data available",
     "No fundamental data available"}

\* The last invocation was an analyzer given no data (or fundamentals data carrying
\* the error marker).
NoData ==
    /\ call.fn \in {"news", "technical", "fundamental"}
    /\ call.data = "empty" \/ (call.fn = "fundamental" /\ call.data = "error")

\* C10: an analyzer given absent or empty data (for the fundamentals analyzer also
\* data carrying an error marker) returns score 0 with a reasoning that says the
\* data is unavailable, and gemini_call_count is what it was before the call.
C10_NoDataNoCall ==
    NoData =>
        /\ call.out.score = Num(0)
        /\ call.out.reasoning \in UnavailableTexts
        /\ ~call.out.raised
        /\ gemini_call_count = call.before

\* C10 witness: the news analyzer was called without news while the model is
\* configured, answers, and has been called before.
C10_Witness ==
    /\ call.fn = "news"
    /\ call.data = "empty"
    /\ llm_available
    /\ call.reply.kind = "json"
    /\ gemini_call_count > 0

\* C25: the 1-week momentum is the percentage change to the latest close from the
\* close 5 trading sessions before the latest session, the 1-month momentum the same
\* over 20 sessions; a history too short for the look-back gives a momentum of 0.
C25_MomentumOverFiveAndTwentySessions ==
    (call.fn = "indicators" /\ call.closes # <<>>) =>
        LET n == Len(call.closes)
            latest == call.closes[n]
            Before(k) == IF n > k THEN call.closes[n - k] ELSE latest
        IN  /\ call.out.momentum_1w_percent = Round2(Momentum(latest, Before(5)))
            /\ call.out.momentum_1m_percent = Round2(Momentum(latest, Before(20)))
            /\ n <= 5 => call.out.momentum_1w_percent = 0
            /\ n <= 20 => call.out.momentum_1m_percent = 0

----------------------------------------------------------------------------
(* Properties of the analyzers' and the synthesizer's results.              *)

Analyzers == {"news", "technical", "fundamental"}

\* C11: no analyzer raises to its caller: whatever the model call comes to, the
\* analyzer returns a record with a score and a reasoning, and the score is 0 when
\* the model is not configured, the call failed or its output is no JSON object.
C11_AnalyzersNeverRaise ==
    call.fn \in Analyzers =>
        /\ ~call.out.raised
        /\ {"score", "reasoning"} \subseteq DOMAIN call.out
        /\ (~llm_available \/ CallFailed) => call.out.score = Num(0)

\* C11 witness: the technical analyzer, configured and given data, got a reply that
\* parses but is no JSON object.
C11_Witness ==
    /\ call.fn = "technical"
    /\ llm_available
    /\ call.data = "ok"
    /\ call.reply.kind = "nondict"
    /\ call.out.score = Num(0)

\* C12: the score an analyzer returns is a number in [-1, 1], whatever the model
\* replied.
C12_ScoresInRange ==
    call.fn \in Analyzers =>
        /\ call.out.score.t = "num"
        /\ call.out.score.v >= -100
        /\ call.out.score.v <= 100

\* C13: the synthesizer returns an action among BUY, HOLD and SELL and a confidence
\* that is a number in [0, 1], whatever the model replied.
C13_ActionAndConfidenceInRange ==
    call.fn = "final" =>
        /\ call.out.recommendation \in {"BUY", "HOLD", "SELL"}
        /\ call.out.confidence.t = "num"
        /\ call.out.confidence.v >= 0
        /\ call.out.confidence.v <= 100

\* q is an initial segment of r.
IsPrefix(q, r) == Len(q) <= Len(r) /\ SubSeq(r, 1, Len(q)) = q

\* C15: Recommendation and RecommendationHistory rows are only ever appended: every
\* step of the program leaves the committed rows of each instrument in place,
\* unchanged, before whatever it adds.
C15_RowsAreOnlyAppended ==
    [][\A s \in AllSymbols : IsPrefix(recs[s], recs'[s]) /\ IsPrefix(hist[s], hist'[s])]_vars

----------------------------------------------------------------------------
(* Properties of analyze_stock and of the two thread pools.                 *)

\* C16: analyze_stock fails to its caller exactly when the symbol is not found: it
\* raises for a symbol the market-data provider cannot resolve, and it does not
\* raise because a provider is unavailable or the model's reply is malformed.
C16_AnalyzeFailsIffNotFound ==
    threads.pc = "done" => (threads.out.raised <=> ~Resolvable(threads.symbol))

\* The result an analyzer task of kind k hands over, as the as_completed loop files it.
Expected(k) ==
    LET r == AnalyzerOf(k, llm_available, threads.env)
    IN  [score |-> r.score, reasoning |-> r.reasoning, raised |-> FALSE]

\* C17: the synthesizer is not invoked before each of the three analyzer tasks has
\* finished and its result has been collected, and it is invoked exactly once per
\* analyze_stock call, in every interleaving of the tasks.
C17_SynthesisAfterFanIn ==
    threads.pc # "idle" =>
        /\ threads.synth <= 1
        /\ threads.synth = 1 =>
              \A k \in KindSet : threads.tasks[k].st = "done" /\ Has(threads.results, k)
        /\ threads.pc = "done" <=> threads.synth = 1

\* C17 witness: the synthesizer has run after the three tasks, which issued model
\* calls, completed in the reverse of their submission order.
C17_Witness ==
    /\ threads.pc = "done"
    /\ threads.synth = 1
    /\ threads.issued = 4
    /\ threads.completed = <<"fundamental_analysis", "technical_analysis", "news_sentiment">>

\* C18: the three results handed to the synthesizer and the three component scores
\* of the analyze_stock result are those of the analyzer of their own kind,
\* whatever the order in which the tasks completed.
C18_ResultsFiledByKind ==
    (threads.pc = "done" \/ (threads.pc = "fanin" /\ threads.collected = 3)) =>
        /\ \A k \in KindSet : threads.results[k] = Expected(k)
        /\ threads.pc = "done" =>
              /\ threads.out.news_sentiment = Expected("news_sentiment").score
              /\ threads.out.technical_score = Expected("technical_analysis").score
              /\ threads.out.fundamental_score = Expected("fundamental_analysis").score

\* C18 witness: the technical task completed first and the news task last, with
\* three different scores.
C18_Witness ==
    /\ threads.pc = "done"
    /\ threads.completed = <<"technical_analysis", "fundamental_analysis", "news_sentiment">>
    /\ threads.out.news_sentiment = Num(70)
    /\ threads.out.technical_score = Num(-100)
    /\ threads.out.fundamental_score = Num(250)

\* C19: when analyze_stock is through, gemini_call_count has grown by the number of
\* model calls the analyzers and the synthesizer issued: no increment is lost.
C19_NoLostIncrement ==
    threads.pc = "done" => gemini_call_count = threads.before + threads.issued

\* C20: at most min(number of active holdings, 5) analyses of a refresh pass are
\* running at any time, and at most 3 analyzer tasks of one analyze_stock call.
C20_InFlightCaps ==
    /\ Cardinality(Running) <= Min(Cardinality(holdings), 5)
    /\ threads.pc = "fanin" =>
          Cardinality({k \in KindSet : InFlight(threads.tasks[k])}) <= 3

\* C20 witness: six holdings, five analyses running and the sixth waiting for a
\* thread.
C20_Witness ==
    /\ Cardinality(DOMAIN refresh.tasks) = 6
    /\ Cardinality(Running) = 5
    /\ \E h \in DOMAIN refresh.tasks : refresh.tasks[h].st = "queued"

----------------------------------------------------------------------------
(* Properties of the portfolio.                                             *)

\* C14: add_stock_to_portfolio for an owner who already holds the symbol merges into
\* that holding: no holding is added, the share count becomes the sum of the old and
\* the added shares, and the average cost becomes (old_shares * old_cost +
\* added_shares * added_cost) / (old_shares + added_shares), so that the new shares
\* at the new average cost are the old cost basis plus the cost of the purchase.
C14_MergeIsWeightedAverage ==
    [][\A u \in Users, s \in Symbols, shares \in Lots, average_cost \in Costs :
          (/\ <<u, s>> \in holdings
           /\ ret'.op = "add"
           /\ ret'.ok
           /\ AddStock(u, s, shares, average_cost, TRUE)) =>
              LET old == lots[<<u, s>>]
                  new == lots'[<<u, s>>]
              IN  /\ holdings' = holdings
                  /\ new.shares = old.shares + shares
                  /\ new.average_cost.n * new.shares * old.average_cost.d =
                         (old.shares * old.average_cost.n
                              + shares * average_cost * old.average_cost.d)
                             * new.average_cost.d]_vars

\* C14 witness: 10 shares at 100 were added to 10 shares at 80: 20 shares at 90.
C14_Witness ==
    \E h \in holdings : lots[h] = [shares |-> 20, average_cost |-> [n |-> 90, d |-> 1]]

\* C28: whatever add_stock_to_portfolio, the Upstox sync and the Setu sync did, in any
\* order, no owner has two active Portfolio rows of one instrument and no symbol has
\* two Stock rows.
C28_OneRowPerHolding ==
    /\ \A r \in BagToSet(portfolio) :
          /\ CopiesIn(r, portfolio) = 1
          /\ \A q \in BagToSet(portfolio) :
                (/\ q.is_active /\ r.is_active
                 /\ q.user_id = r.user_id
                 /\ q.stock_id = r.stock_id) => q = r
    /\ \A r \in BagToSet(stocks) :
          /\ CopiesIn(r, stocks) = 1
          /\ \A q \in BagToSet(stocks) : q.symbol = r.symbol => q = r

\* C28 witness: the three writers have acted on one table.  A Setu sync made a Stock
\* row without a price and a holding of no units, a sale from nothing made a holding
\* of -20 shares, both owners hold AAPL, and an Upstox sync came last.
C28_Witness ==
    /\ \E r \in BagToSet(stocks) : r.current_price = NoPrice
    /\ \E r \in BagToSet(stocks) : r.current_price = 100
    /\ \A u \in Users : \E r \in BagToSet(portfolio) : r.user_id = u /\ r.stock_id = "AAPL"
    /\ \E r \in BagToSet(portfolio) : r.shares = 0
    /\ \E r \in BagToSet(portfolio) : r.shares = -20
    /\ ret.op = "sync"

\* C29: a call of add_stock_to_portfolio that returns False (the provider cannot
\* resolve the symbol, the merged share count is zero, the commit fails) leaves
\* table portfolio exactly as it was: no row added, none changed.
C29_FailedAddChangesNothing ==
    [][(ret'.op = "add" /\ ~ret'.ok) => portfolio' = portfolio]_vars

\* C29 witness: a sale of the 20 shares an owner holds has just failed on the
\* division by the merged share count, and the holding still has its 20 shares.
C29_Witness ==
    /\ ret.op = "add"
    /\ ~ret.ok
    /\ ret.logged = "division"
    /\ \E r \in BagToSet(portfolio) : r.shares = 20

----------------------------------------------------------------------------
(* Properties of the price refresh.                                         *)

\* A step of _update_stock_price_if_needed for s.
PriceStep(s) == now' = now /\ ret'.op = "price" /\ ret'.symbol = s

\* C24: _update_stock_price_if_needed asks the provider only when the Stock row has no
\* last_updated or one more than 15 minutes old; up to 15 minutes after a refresh it
\* asks nothing and leaves the row as it is; and a fetch that succeeded sets
\* last_updated to the current time (and current_price to the price fetched).
C24_PriceCacheWindow ==
    [][\A s \in Symbols :
          PriceStep(s) =>
              LET old == CHOOSE r \in BagToSet(stocks) : r.symbol = s
                  new == CHOOSE r \in BagToSet(stocks') : r.symbol = s
                  fresh == old.last_updated # NoTime /\ now - old.last_updated <= 15
              IN  /\ ret'.fetched => ~fresh
                  /\ fresh => (~ret'.fetched /\ stocks' = stocks)
                  /\ (ret'.fetched /\ ret'.ok /\ ret'.info = "price") =>
                        /\ new.last_updated = now
                        /\ \E info \in Quotes : new.current_price = info.currentPrice
                        /\ BagCardinality(stocks') = BagCardinality(stocks)]_vars

\* C24 witness: the row was refreshed after time 0 with the price of 110, and a call
\* exactly 15 minutes later has asked the provider nothing.
C24_Witness ==
    /\ ret.op = "price"
    /\ ~ret.fetched
    /\ \E r \in BagToSet(stocks) :
          /\ r.last_updated > 0
          /\ r.current_price = 110
          /\ now - r.last_updated = 15

----------------------------------------------------------------------------
(* Properties of concurrent record operations.                              *)

\* Request r commits its rows in this step.
Commits(r) == reqs[r].pc = "read" /\ reqs'[r].pc = "idle" /\ ret'.op = "create" /\ ret'.ok

\* C23: nothing keeps two record operations for one symbol apart.  While a request is
\* between its read of the latest Recommendation and its commit, the other request
\* can read the same latest Recommendation and can commit; and a request that commits
\* writes the change row its own read calls for, whatever has been committed since.
\* So a final state is reachable whose RecommendationHistory rows are not the
\* transitions of the Recommendation rows in creation order: a change is missing or
\* is there twice.
C23_SameSymbolRaceIsUnguarded ==
    /\ [](\A r \in Reading : \A q \in Requests \ {r} :
             /\ (/\ reqs[q].pc = "idle"
                 /\ Room
                 /\ LatestCommitted(reqs[r].symbol) = reqs[r].previous) =>
                   ENABLED (\E env \in EnvsFor(reqs[r].symbol, RaceReplies) :
                               /\ ReqRead(q, reqs[r].symbol, env)
                               /\ reqs'[q].pc = "read"
                               /\ reqs'[q].previous = reqs[r].previous)
             /\ reqs[q].pc = "read" =>
                   ENABLED (ReqWrite(q, TRUE) /\ ret'.ok))
    /\ [][\A r \in Requests :
             Commits(r) =>
                 LET s == reqs[r].symbol
                     P == reqs[r].previous
                     N == reqs[r].row.recommendation
                 IN  /\ recs'[s] = Append(recs[s], reqs[r].row)
                     /\ hist'[s] = IF P # "NONE" /\ P # N
                                   THEN Append(hist[s], [previous_recommendation |-> P,
                                                         new_recommendation |-> N])
                                   ELSE hist[s]]_vars

\* C23 witness: both requests are through, and the store holds HOLD, BUY, SELL with
\* the change rows HOLD -> BUY and HOLD -> SELL: the change from BUY to SELL is
\* missing and a change that never was is recorded.
C23_Witness ==
    /\ Reading = {}
    /\ ActionsOf(recs["AAPL"]) = <<"HOLD", "BUY", "SELL">>
    /\ hist["AAPL"] = <<[previous_recommendation |-> "HOLD", new_recommendation |-> "BUY"],
                        [previous_recommendation |-> "HOLD", new_recommendation |-> "SELL"]>>

----------------------------------------------------------------------------
(* Properties of the model calls in flight.                                 *)

\* self.max_parallel_calls of line 34.
max_parallel_calls == 10

\* The analyzers' generate_content calls of the tasks H that have not returned.
RECURSIVE OpenCalls(_)
OpenCalls(H) ==
    IF H = {} THEN 0
    ELSE LET h == CHOOSE x \in H : TRUE
         IN  (IF refresh.tasks[h].st = "analyzing" THEN refresh.tasks[h].open ELSE 0)
             + OpenCalls(H \ {h})

\* C21: at no time are more than max_parallel_calls (10) model calls in flight: the
\* generate_content calls of a refresh pass that have been entered and have not
\* returned, and those of an analyze_stock call of its own.
C21_AtMostTenCallsInFlight ==
    OpenCalls(DOMAIN refresh.tasks)
        + (IF threads.pc = "fanin"
           THEN Cardinality({k \in KindSet : threads.tasks[k].st = "calling"})
           ELSE 0)
        <= max_parallel_calls

----------------------------------------------------------------------------
(* Termination.                                                             *)

\* The kinds whose future the as_completed loop of analyze_stock has yielded.
Yielded == {threads.completed[i] : i \in 1..threads.collected}

\* C30: when every call to a provider returns or fails, a refresh pass that has
\* begun ends, by returning or by raising, and an analyze_stock call that has begun
\* ends.  The pass ends with every submitted analysis through the loop body, each
\* taken there once: a step of the loop takes one finished analysis and no analysis
\* leaves the loop's done set.  analyze_stock ends with three results collected, one
\* of each kind.
C30_PassesAndAnalysesTerminate ==
    /\ (refresh.pc = "running") ~> (refresh.pc = "idle" /\ ret.op = "refresh")
    /\ (threads.pc = "fanin") ~> (threads.pc = "done")
    /\ [][/\ (refresh.pc = "running" /\ refresh'.pc = "idle") =>
                \A h \in DOMAIN refresh.tasks : refresh.tasks[h].st = "processed"
          /\ (refresh.pc = "running" /\ refresh'.pc = "running") =>
                \A h \in DOMAIN refresh.tasks :
                    /\ refresh.tasks[h].st = "processed" =>
                          refresh'.tasks[h].st = "processed"
                    /\ (refresh.tasks[h].st # "processed"
                           /\ refresh'.tasks[h].st = "processed") =>
                          /\ refresh.tasks[h].st = "done"
                          /\ Len(refresh'.errors) + refresh'.updated_count
                                = Len(refresh.errors) + refresh.updated_count + 1
          /\ (threads.pc = "fanin" /\ threads'.pc = "done") =>
                /\ threads.collected = Len(Kinds)
                /\ Len(threads.completed) = Len(Kinds)
                /\ Yielded = KindSet
                /\ \A k \in KindSet : Has(threads.results, k)]_vars

\* C30 witness: a pass over two holdings that made model calls has ended with its
\* two outcomes counted, one as recorded and one, whose analysis raised, as an error.
C30_Witness ==
    /\ refresh.pc = "idle"
    /\ ret.op = "refresh"
    /\ ~ret.raised
    /\ ret.total_stocks = 2
    /\ ret.updated_count = 1
    /\ Len(ret.errors) = 1
    /\ gemini_call_count > 0

=============================================================================
